---- MODULE Spec2Model ----
(***************************************************************************)
(* Unknown / invalid content detection and recovery of the editor core:    *)
(*   - the tree validator  (checkForUnknownContent / getUnknownContent),   *)
(*   - the placeholder synthesizer (generatePlaceholderNodeExtensions),    *)
(*   - isContentInvalid / createPlaceholderExtensions,                     *)
(*   - the content-build pipeline (createNodeFromContent).                 *)
(*                                                                         *)
(* JSON values are modelled as TLA+ records whose domain is the set of     *)
(* keys the object has: a node without a `type` is a record without the    *)
(* field "type".  A mark given as a bare string s is the record            *)
(* [str |-> s]; a mark object is a record with the field "type".           *)
(***************************************************************************)
EXTENDS Integers, Sequences, FiniteSets, TLC

VARIABLES
    content,        \* the content handed to the operation (tagged by its JS type)
    schema,         \* [nodes, marks]: the type names of the schema in use
    extensions,     \* the caller's extension list
    elements,       \* the observations handed to generatePlaceholderNodeExtensions
    options,        \* the options argument: [fallback, slice]
    pc,             \* position of the running operation
    result,         \* what the operation returned
    details,        \* createNodeFromContent: the diagnostics computed in `catch`
    stack           \* createNodeFromContent: the contents of the active invocations

vars == <<content, schema, extensions, elements, options, pc, result, details, stack>>

\* Size of the largest input document: nodes + marks + attribute keys.
MaxSize == 4

----------------------------------------------------------------------------
(* JSON helpers *)

Has(obj, key) == key \in DOMAIN obj

\* Object.keys(x.attrs || {})
AttributeKeys(x) == IF Has(x, "attrs") THEN x.attrs ELSE <<>>

\* typeof mark === 'string' ? mark : mark.type
MarkName(mark) == IF Has(mark, "str") THEN mark.str ELSE mark.type

\* (mutant) 1-based index
IndexKeyOneBased(i) == ToString(i)

\* `${index}` of the JS (0-based) index of the i-th element of a TLA+ sequence
IndexKey(i) == ToString(i - 1)

----------------------------------------------------------------------------
(* checkForUnknownContent *)

\* (mutant) the flag is not raised after an invalid mark
MarkFlagKept(invalidParentMark) == invalidParentMark

\* `invalidParentMark = true` after an invalid mark was recorded
MarkFlagAfter(invalidParentMark) == TRUE

\* (mutant) the flag is not raised after an invalid node type
NodeFlagKept(invalidParentNode, badType) == invalidParentNode

\* `invalidParentNode = true` inside `if (type && !validNodes.has(type))`
NodeFlagAfter(invalidParentNode, badType) == invalidParentNode \/ badType

\* The `marks` loop: st = [invalidMarks, invalidParentMark] after marks 1..i-1.
RECURSIVE MarksLoop(_, _, _, _, _, _)
MarksLoop(marks, i, validMarks, path, invalidParentNode, st) ==
    IF i > Len(marks) THEN st
    ELSE LET mark == marks[i]
             name == MarkName(mark)
         IN IF name \in validMarks
            THEN MarksLoop(marks, i + 1, validMarks, path, invalidParentNode, st)
            ELSE MarksLoop(marks, i + 1, validMarks, path, invalidParentNode,
                     [invalidMarks |->
                          <<[name |-> name,
                             attributes |-> AttributeKeys(mark),
                             path |-> path \o <<"marks", IndexKey(i)>>,
                             type |-> "mark",
                             invalidParentMark |-> st.invalidParentMark,
                             invalidParentNode |-> invalidParentNode]>>
                          \o st.invalidMarks,
                      invalidParentMark |-> MarkFlagAfter(st.invalidParentMark)])

\* (mutant) the truthiness test of `type` left out
InvalidTypeNoTruthiness(json, validNodes) ==
    Has(json, "type") /\ json.type \notin validNodes

\* `type && !validNodes.has(type)`: the empty string is falsy
InvalidType(json, validNodes) ==
    Has(json, "type") /\ json.type # "" /\ json.type \notin validNodes

\* (mutant) push instead of unshift
MergeChildPush(unknownContent, childReport) == unknownContent \o childReport

\* unknownContent.unshift(...child report)
MergeChild(unknownContent, childReport) == childReport \o unknownContent

RECURSIVE checkForUnknownContent(_, _, _, _, _, _)
RECURSIVE ContentLoop(_, _, _, _, _, _, _, _)
ContentLoop(cs, i, validMarks, validNodes, path, invalidParentNode, invalidParentMark, acc) ==
    IF i > Len(cs) THEN acc
    ELSE ContentLoop(cs, i + 1, validMarks, validNodes, path,
                     invalidParentNode, invalidParentMark,
                     MergeChild(acc,
                         checkForUnknownContent(cs[i], validMarks, validNodes,
                             path \o <<"content", IndexKey(i)>>,
                             invalidParentNode, invalidParentMark)))

checkForUnknownContent(json, validMarks, validNodes, path, ipn, ipm) ==
    LET afterMarks ==
            IF Has(json, "marks")
            THEN MarksLoop(json.marks, 1, validMarks, path, ipn,
                           [invalidMarks |-> <<>>, invalidParentMark |-> ipm])
            ELSE [invalidMarks |-> <<>>, invalidParentMark |-> ipm]
        invalidParentMark == afterMarks.invalidParentMark
        badType == InvalidType(json, validNodes)
        own == IF badType
               THEN <<[name |-> json.type,
                       attributes |-> AttributeKeys(json),
                       type |-> "node",
                       path |-> path,
                       invalidParentMark |-> invalidParentMark,
                       invalidParentNode |-> ipn]>>
               ELSE <<>>
        invalidParentNode == NodeFlagAfter(ipn, badType)
        unknownContent ==
            IF Has(json, "content")
            THEN ContentLoop(json.content, 1, validMarks, validNodes, path,
                             invalidParentNode, invalidParentMark, <<>>)
            ELSE <<>>
    IN unknownContent \o afterMarks.invalidMarks \o own

\* ([]).concat(jsonContent).flatMap((json, idx) => checkForUnknownContent(...))
RECURSIVE FlatMapCheck(_, _, _, _, _)
FlatMapCheck(items, i, isArray, validMarks, validNodes) ==
    IF i > Len(items) THEN <<>>
    ELSE checkForUnknownContent(items[i], validMarks, validNodes,
                                IF isArray THEN <<IndexKey(i)>> ELSE <<>>,
                                FALSE, FALSE)
         \o FlatMapCheck(items, i + 1, isArray, validMarks, validNodes)

\* c is the tagged JSON content: [kind |-> "object", json |-> node] or
\* [kind |-> "array", items |-> <<node, ...>>]
getUnknownContent(c, sch) ==
    FlatMapCheck(IF c.kind = "array" THEN c.items ELSE <<c.json>>, 1,
                 c.kind = "array", sch.marks, sch.nodes)

----------------------------------------------------------------------------
(* generatePlaceholderNodeExtensions *)

ToSet(seq) == {seq[i] : i \in 1..Len(seq)}

\* An object used as a map: its keys in insertion order and their values.
\* (Keys that look like array indices would be listed first by
\* Object.values; tag names are not such keys.)
EmptyMap == [keys |-> <<>>, at |-> <<>>]
MapHas(map, key) == \E i \in 1..Len(map.keys) : map.keys[i] = key
MapGet(map, key) == map.at[CHOOSE i \in 1..Len(map.keys) : map.keys[i] = key]
MapSet(map, key, value) ==
    IF MapHas(map, key)
    THEN [map EXCEPT !.at[CHOOSE i \in 1..Len(map.keys) : map.keys[i] = key] = value]
    ELSE [keys |-> Append(map.keys, key), at |-> Append(map.at, value)]

\* (mutant) the attributes of the last observation replace the earlier ones
ReplaceAttributes(old, seenAttributes) == ToSet(seenAttributes)

\* new Set([...(extensionMap[tagName]?.attributes || []), ...seenAttributes])
MergeAttributes(old, seenAttributes) == old \cup ToSet(seenAttributes)

\* the property of extensionMap an observation is filed under
MapKey(type, tagName) == tagName

\* (type === 'mark' ? Mark : Node).create({...})
PlaceholderExtension(type, tagName, attributes, opts) ==
    [kind |-> IF type = "mark" THEN "mark" ELSE "node",
     name |-> tagName,
     priority |-> "MIN_SAFE_INTEGER",
     attributes |-> attributes,
     tags |-> {tagName},
     render |-> IF opts.fallback THEN "fallback" ELSE tagName]
    @@ (IF type = "mark" THEN <<>> ELSE [group |-> "block", content |-> "inline*"])

RECURSIVE ReduceElements(_, _, _, _)
ReduceElements(els, i, extensionMap, opts) ==
    IF i > Len(els) THEN extensionMap
    ELSE LET el == els[i]
             key == MapKey(el.type, el.tagName)
             attributes ==
                 MergeAttributes(IF MapHas(extensionMap, key)
                                 THEN MapGet(extensionMap, key).attributes ELSE {},
                                 el.attributes)
         IN ReduceElements(els, i + 1,
                MapSet(extensionMap, key,
                       [attributes |-> attributes,
                        node |-> PlaceholderExtension(el.type, el.tagName, attributes, opts)]),
                opts)

\* Object.values(generatedExtensions).map(({ node }) => node)
generatePlaceholderNodeExtensions(els, opts) ==
    LET generatedExtensions == ReduceElements(els, 1, EmptyMap, opts)
    IN [i \in 1..Len(generatedExtensions.keys) |-> generatedExtensions.at[i].node]

----------------------------------------------------------------------------
(* Schema resolution and the HTML probe *)

\* getSchemaByResolvedExtensions(ExtensionManager.resolve(extensions)): the
\* node names and the mark names of the schema are the names of the node
\* extensions and of the mark extensions.
DeriveSchema(exts) ==
    [nodes |-> {exts[i].name : i \in {j \in 1..Len(exts) : exts[j].kind = "node"}},
     marks |-> {exts[i].name : i \in {j \in 1..Len(exts) : exts[j].kind = "mark"}}]

\* node.tagName.toLowerCase(): the DOM reports HTML tag names in upper case
LowerCase == [P |-> "p", B |-> "b", X |-> "x", Y |-> "y"]
toLowerCase(tagName) == LowerCase[tagName]

\* The elements of the parsed HTML no parse rule of the extensions matches:
\* the catch-all rule of lowest priority is tried last and records them.
RECURSIVE UnmatchedElements(_, _, _)
UnmatchedElements(html, i, exts) ==
    IF i > Len(html) THEN <<>>
    ELSE (IF \E j \in 1..Len(exts) : toLowerCase(html[i].tagName) \in exts[j].tags
          THEN <<>> ELSE <<html[i]>>)
         \o UnmatchedElements(html, i + 1, exts)

getUnknownHTMLElements(c, exts) == UnmatchedElements(c.html, 1, exts)

----------------------------------------------------------------------------
(* isContentInvalid / createPlaceholderExtensions *)

\* `!content`: null and the empty string are falsy
Falsy(c) == c.kind = "null" \/ (c.kind = "string" /\ c.value = "")

isContentInvalid(c, exts) ==
    IF Falsy(c) THEN FALSE
    ELSE IF c.kind = "string" THEN getUnknownHTMLElements(c, exts) # <<>>
    ELSE getUnknownContent(c, DeriveSchema(exts)) # <<>>

\* the predicate of extensions.filter(...)
NotCollaboration(extension) == extension.name # "collaboration"

createPlaceholderExtensions(c, exts, opts) ==
    IF Falsy(c) THEN exts
    ELSE IF c.kind = "string"
    THEN LET unknownHTMLElements == getUnknownHTMLElements(c, exts)
         IN IF unknownHTMLElements = <<>> THEN exts
            ELSE SelectSeq(exts, NotCollaboration)
                 \o generatePlaceholderNodeExtensions(
                        [i \in 1..Len(unknownHTMLElements) |->
                            [type |-> "node",
                             tagName |-> toLowerCase(unknownHTMLElements[i].tagName),
                             attributes |-> unknownHTMLElements[i].attributes]],
                        opts)
    ELSE LET unknownContent == getUnknownContent(c, DeriveSchema(exts))
         IN IF unknownContent = <<>> THEN exts
            ELSE exts
                 \o generatePlaceholderNodeExtensions(
                        [i \in 1..Len(unknownContent) |->
                            [type |-> unknownContent[i].type,
                             tagName |-> unknownContent[i].name,
                             attributes |-> unknownContent[i].attributes]],
                        opts)

----------------------------------------------------------------------------
(* checkForInvalidContent / getInvalidContent (createNodeFromContent.ts) *)

\* {name: x}: a property whose value is undefined is a missing key
NameOf(json) == IF Has(json, "type") THEN [name |-> json.type] ELSE <<>>
MarkNameOf(mark) ==
    IF Has(mark, "str") THEN [name |-> mark.str] ELSE NameOf(mark)

RECURSIVE InvalidMarksLoop(_, _, _, _, _, _)
InvalidMarksLoop(marks, i, validMarks, path, invalidParentNode, st) ==
    IF i > Len(marks) THEN st
    ELSE LET mark == marks[i]
             named == MarkNameOf(mark)
         IN IF Has(named, "name") /\ named.name \in validMarks
            THEN InvalidMarksLoop(marks, i + 1, validMarks, path, invalidParentNode, st)
            ELSE InvalidMarksLoop(marks, i + 1, validMarks, path, invalidParentNode,
                     [invalidMarks |->
                          <<named @@
                            [path |-> path \o <<"marks", IndexKey(i)>>,
                             type |-> "mark",
                             invalidParentMark |-> st.invalidParentMark,
                             invalidParentNode |-> invalidParentNode]>>
                          \o st.invalidMarks,
                      invalidParentMark |-> TRUE])

RECURSIVE checkForInvalidContent(_, _, _, _, _, _)
RECURSIVE InvalidContentLoop(_, _, _, _, _, _, _, _)
InvalidContentLoop(cs, i, validMarks, validNodes, path, invalidParentNode, invalidParentMark, acc) ==
    IF i > Len(cs) THEN acc
    ELSE InvalidContentLoop(cs, i + 1, validMarks, validNodes, path,
                     invalidParentNode, invalidParentMark,
                     checkForInvalidContent(cs[i], validMarks, validNodes,
                         path \o <<"content", IndexKey(i)>>,
                         invalidParentNode, invalidParentMark)
                     \o acc)

checkForInvalidContent(json, validMarks, validNodes, path, ipn, ipm) ==
    LET afterMarks ==
            IF Has(json, "marks")
            THEN InvalidMarksLoop(json.marks, 1, validMarks, path, ipn,
                                  [invalidMarks |-> <<>>, invalidParentMark |-> ipm])
            ELSE [invalidMarks |-> <<>>, invalidParentMark |-> ipm]
        invalidParentMark == afterMarks.invalidParentMark
        \* !validNodes.has(type!): a missing type is not in the set
        badType == ~(Has(json, "type") /\ json.type \in validNodes)
        own == IF badType
               THEN <<NameOf(json) @@
                      [type |-> "node",
                       path |-> path,
                       invalidParentMark |-> invalidParentMark,
                       invalidParentNode |-> ipn]>>
               ELSE <<>>
        invalidParentNode == ipn \/ badType
        invalidContent ==
            IF Has(json, "content")
            THEN InvalidContentLoop(json.content, 1, validMarks, validNodes, path,
                                    invalidParentNode, invalidParentMark, <<>>)
            ELSE <<>>
    IN invalidContent \o afterMarks.invalidMarks \o own

\* The content as getInvalidContent destructures it: an array has none of
\* the properties type, marks, content.
AsObject(c) == IF c.kind = "array" THEN <<>> ELSE c.json

getInvalidContent(c, sch) ==
    [json |-> c,
     invalidContent |->
         checkForInvalidContent(AsObject(c), sch.marks, sch.nodes, <<>>, FALSE, FALSE)]

----------------------------------------------------------------------------
(* createNodeFromContent *)

\* Deepest nesting of createNodeFromContent invocations the model follows.
MaxCalls == 3

EmptyString == [kind |-> "string", value |-> "", html |-> <<>>]

\* typeof content === 'object' && content !== null
isJSONContent(c) == c.kind \in {"object", "array"}
\* typeof content === 'string'
isTextContent(c) == c.kind = "string"
\* Array.isArray(content) && content.length > 0
isArrayContent(c) == c.kind = "array" /\ Len(c.items) > 0

\* schema.nodeFromJSON rejects a node or a mark whose type is not a type of
\* the schema (a missing type and a mark given as a string included).
RECURSIVE SchemaRejects(_, _)
SchemaRejects(json, sch) ==
    \/ ~Has(json, "type")
    \/ json.type \notin sch.nodes
    \/ \E i \in 1..(IF Has(json, "marks") THEN Len(json.marks) ELSE 0) :
          Has(json.marks[i], "str") \/ json.marks[i].type \notin sch.marks
    \/ \E i \in 1..(IF Has(json, "content") THEN Len(json.content) ELSE 0) :
          SchemaRejects(json.content[i], sch)

\* What the body of `try` can do: return, or throw.  A rejected type always
\* throws; the schema may also reject a content for other reasons.
TryOutcomes(c, sch) ==
    IF isArrayContent(c)
    THEN IF \E i \in 1..Len(c.items) : SchemaRejects(c.items[i], sch)
         THEN {"throw"} ELSE {"return", "throw"}
    ELSE IF SchemaRejects(AsObject(c), sch) THEN {"throw"} ELSE {"return", "throw"}

\* (mutant) the recovery retries with the content that failed
RetryContent(c) == c

\* the content of the recovery: createNodeFromContent('', schema, options)
FallbackContent(c) == EmptyString

Top == stack[Len(stack)]

Dispatch ==
    /\ pc = "dispatch"
    /\ pc' = IF isJSONContent(Top) THEN "try"
             ELSE IF isTextContent(Top) THEN "text"
             ELSE "fallback"
    /\ UNCHANGED <<content, schema, extensions, elements, options, result, details, stack>>

TryReturn ==
    /\ pc = "try"
    /\ "return" \in TryOutcomes(Top, schema)
    /\ result' = [kind |-> IF isArrayContent(Top) THEN "fragment" ELSE "node",
                  of |-> Top]
    /\ pc' = "return"
    /\ UNCHANGED <<content, schema, extensions, elements, options, details, stack>>

TryThrow ==
    /\ pc = "try"
    /\ "throw" \in TryOutcomes(Top, schema)
    /\ pc' = "catch"
    /\ UNCHANGED <<content, schema, extensions, elements, options, result, details, stack>>

Catch ==
    /\ pc = "catch"
    /\ Len(stack) < MaxCalls
    /\ details' = getInvalidContent(Top, schema)
    /\ stack' = Append(stack, FallbackContent(Top))
    /\ pc' = "dispatch"
    /\ UNCHANGED <<content, schema, extensions, elements, options, result>>

Fallback ==
    /\ pc = "fallback"
    /\ Len(stack) < MaxCalls
    /\ stack' = Append(stack, EmptyString)
    /\ pc' = "dispatch"
    /\ UNCHANGED <<content, schema, extensions, elements, options, result, details>>

ParseText ==
    /\ pc = "text"
    /\ result' = [kind |-> IF options.slice THEN "fragment" ELSE "node", of |-> Top]
    /\ pc' = "return"
    /\ UNCHANGED <<content, schema, extensions, elements, options, details, stack>>

\* every active invocation returns the value of the one it called
Return ==
    /\ pc = "return"
    /\ stack' = <<>>
    /\ pc' = "done"
    /\ UNCHANGED <<content, schema, extensions, elements, options, result, details>>

----------------------------------------------------------------------------
(* Input documents *)

NodeTypeNames == {"", "p", "x"}
MarkValues == {[type |-> "b"], [type |-> "x"], [str |-> "x"]}
AttrsValue == <<"id">>

\* The schema of the validator runs: "p" is a known node, "b" a known mark.
Schemas == {[nodes |-> {"p"}, marks |-> {"b"}],
            [nodes |-> {"p", "x"}, marks |-> {}]}

\* A document in flat form: nodes 1..n in document order, parent[i] < i
\* (0: top level), marks 1..m with owner[k] the node carrying mark k.
RECURSIVE Ancestors(_, _)
Ancestors(parent, i) == IF i = 0 THEN {0} ELSE {i} \cup Ancestors(parent, parent[i])

Preorder(n, parent) ==
    /\ \A i \in 1..n : parent[i] < i
    /\ \A i \in 2..n : parent[i] \in Ancestors(parent, i - 1)

True(f) == Cardinality({i \in DOMAIN f : f[i]})

SeqOfSet(S) ==
    LET RECURSIVE Sorted(_)
        Sorted(T) == IF T = {} THEN <<>>
                     ELSE LET lo == CHOOSE x \in T : \A y \in T : x <= y
                          IN <<lo>> \o Sorted(T \ {lo})
    IN Sorted(S)

RECURSIVE Map(_, _, _, _, _, _, _, _)
RECURSIVE JsonOf(_, _, _, _, _, _, _, _)
Map(ids, n, parent, type, nattr, m, owner, mark) ==
    IF ids = <<>> THEN <<>>
    ELSE <<JsonOf(Head(ids), n, parent, type, nattr, m, owner, mark)>>
         \o Map(Tail(ids), n, parent, type, nattr, m, owner, mark)
JsonOf(i, n, parent, type, nattr, m, owner, mark) ==
    LET ms == SeqOfSet({k \in 1..m : owner[k] = i})
        cs == SeqOfSet({j \in 1..n : parent[j] = i})
    IN (IF type[i] = <<>> THEN <<>> ELSE [type |-> type[i][1]])
       @@ (IF nattr[i] THEN [attrs |-> AttrsValue] ELSE <<>>)
       @@ (IF ms = <<>> THEN <<>> ELSE [marks |-> [k \in 1..Len(ms) |-> mark[ms[k]]]])
       @@ (IF cs = <<>> THEN <<>>
           ELSE [content |-> Map(cs, n, parent, type, nattr, m, owner, mark)])

Roots(n, parent) == SeqOfSet({j \in 1..n : parent[j] = 0})

OptTypes == {<<>>} \cup {<<t>> : t \in NodeTypeNames}

\* c is a JSON document of size <= size: a single node or an array of nodes
JsonInput(c, size) ==
    \E n \in 1..size : \E parent \in [1..n -> 0..(n - 1)] :
      /\ Preorder(n, parent)
      /\ \E nattr \in [1..n -> BOOLEAN] :
          /\ n + True(nattr) <= size
          /\ \E m \in 0..(size - n - True(nattr)) : \E owner \in [1..m -> 1..n] :
              /\ \A k \in 2..m : owner[k - 1] <= owner[k]
              /\ \E mattr \in [1..m -> BOOLEAN] :
                  /\ n + True(nattr) + m + True(mattr) <= size
                  /\ \E mv \in [1..m -> MarkValues] :
                      /\ \A k \in 1..m : mattr[k] => Has(mv[k], "type")
                      /\ \E type \in [1..n -> OptTypes] :
                          LET mark == [k \in 1..m |->
                                         IF mattr[k] THEN mv[k] @@ [attrs |-> AttrsValue]
                                         ELSE mv[k]]
                              items == Map(Roots(n, parent), n, parent, type,
                                           nattr, m, owner, mark)
                          IN \/ c = [kind |-> "array", items |-> items]
                             \/ /\ Len(items) = 1
                                /\ c = [kind |-> "object", json |-> items[1]]

----------------------------------------------------------------------------
(* The validator run on its own: getUnknownContent({json, schema}) *)

InitValidate ==
    /\ JsonInput(content, MaxSize)
    /\ schema \in Schemas
    /\ extensions = <<>>
    /\ elements = <<>>
    /\ options = [fallback |-> FALSE, slice |-> TRUE]
    /\ pc = "start"
    /\ result = <<>>
    /\ details = <<>>
    /\ stack = <<>>

GetUnknownContent ==
    /\ pc = "start"
    /\ result' = getUnknownContent(content, schema)
    /\ pc' = "done"
    /\ UNCHANGED <<content, schema, extensions, elements, options, details, stack>>

NextValidate == GetUnknownContent

SpecValidate == InitValidate /\ [][NextValidate]_vars

----------------------------------------------------------------------------
(* Vocabulary of the properties of a report *)

IsPrefix(p, q) == Len(p) <= Len(q) /\ SubSeq(q, 1, Len(p)) = p
IsProperPrefix(p, q) == Len(p) < Len(q) /\ IsPrefix(p, q)

\* Every node occurrence of a document, with the JSON path that leads to it.
RECURSIVE NodesUnder(_, _)
NodesUnder(json, path) ==
    {[path |-> path, json |-> json]}
    \cup (IF Has(json, "content")
          THEN UNION {NodesUnder(json.content[i], path \o <<"content", ToString(i - 1)>>)
                      : i \in 1..Len(json.content)}
          ELSE {})

AllNodes(c) ==
    IF c.kind = "array"
    THEN UNION {NodesUnder(c.items[i], <<ToString(i - 1)>>) : i \in 1..Len(c.items)}
    ELSE NodesUnder(c.json, <<>>)

NumMarks(json) == IF Has(json, "marks") THEN Len(json.marks) ELSE 0
NumChildren(json) == IF Has(json, "content") THEN Len(json.content) ELSE 0

\* Every mark occurrence: the carrying node, the mark's position, its path.
AllMarks(c) ==
    UNION {{[path |-> n.path \o <<"marks", ToString(i - 1)>>, owner |-> n.path,
             index |-> i, mark |-> n.json.marks[i]] : i \in 1..NumMarks(n.json)}
           : n \in AllNodes(c)}

BadMark(mark) == MarkName(mark) \notin schema.marks
CarriesBadMark(json) == \E i \in 1..NumMarks(json) : BadMark(json.marks[i])

Entries == {result[i] : i \in 1..Len(result)}
Key(e) == [type |-> e.type, name |-> e.name, path |-> e.path]
Reported == {Key(e) : e \in Entries}
Done == pc = "done"

\* Keys of the occurrences whose type name the schema lacks.
AbsentMarkKeys ==
    {[type |-> "mark", name |-> MarkName(m.mark), path |-> m.path]
     : m \in {x \in AllMarks(content) : BadMark(x.mark)}}
AbsentNodeKeys ==
    {[type |-> "node", name |-> n.json.type, path |-> n.path]
     : n \in {x \in AllNodes(content) :
                Has(x.json, "type") /\ x.json.type \notin schema.nodes}}
AbsentNamedNodeKeys == {k \in AbsentNodeKeys : k.name # ""}

\* C1 (as stated): the report has exactly one entry per occurrence of a node
\* whose type name is not a node name of the schema and per occurrence of a
\* mark whose type name is not a mark name of the schema, and nothing else.
C1_OneEntryPerAbsentType ==
    Done => /\ Reported = AbsentNodeKeys \cup AbsentMarkKeys
            /\ Len(result) = Cardinality(AbsentNodeKeys \cup AbsentMarkKeys)

\* C1 (amended): the same, where the nodes counted are those whose type name
\* is non-empty; a node whose type is the empty string is never reported.
C1_OneEntryPerAbsentNamedType ==
    Done => /\ Reported = AbsentNamedNodeKeys \cup AbsentMarkKeys
            /\ Len(result) = Cardinality(AbsentNamedNodeKeys \cup AbsentMarkKeys)

\* A report with a node entry and a mark entry for a document that also
\* holds a node whose type is the empty string.
C1_Witness ==
    /\ Done
    /\ \E e \in Entries : e.type = "node"
    /\ \E e \in Entries : e.type = "mark"
    /\ \E n \in AllNodes(content) : Has(n.json, "type") /\ n.json.type = ""

----------------------------------------------------------------------------
(* Order of a report *)

\* The part of the report that lies in the subtree of the node at path p.
Sub(p) == LET In(e) == IsPrefix(p, e.path) IN SelectSeq(result, In)
At(p, type) == LET Here(e) == e.path = p /\ e.type = type IN SelectSeq(result, Here)

\* Sub of child k, then of child k-1, ..., then of child 1.
RECURSIVE ChildrenLastFirst(_, _)
ChildrenLastFirst(p, k) ==
    IF k = 0 THEN <<>>
    ELSE Sub(p \o <<"content", ToString(k - 1)>>) \o ChildrenLastFirst(p, k - 1)

\* The entry of mark k (if any), then of mark k-1, ..., then of mark 1.
RECURSIVE MarksLastFirst(_, _)
MarksLastFirst(p, k) ==
    IF k = 0 THEN <<>>
    ELSE At(p \o <<"marks", ToString(k - 1)>>, "mark") \o MarksLastFirst(p, k - 1)

\* C2: for every node, the report of its subtree is the reports of its
\* children, last child first, then its own invalid marks, last declared
\* first, then its own entry if its type is invalid.
C2_DeepestFirstOrder ==
    Done => \A n \in AllNodes(content) :
               Sub(n.path) = ChildrenLastFirst(n.path, NumChildren(n.json))
                             \o MarksLastFirst(n.path, NumMarks(n.json))
                             \o At(n.path, "node")

\* A node with an entry of its own, an invalid mark and two children that
\* each contribute entries.
C2_Witness ==
    /\ Done
    /\ \E n \in AllNodes(content) :
          /\ At(n.path, "node") # <<>>
          /\ MarksLastFirst(n.path, NumMarks(n.json)) # <<>>
          /\ NumChildren(n.json) >= 2
          /\ \A k \in 1..2 : Sub(n.path \o <<"content", ToString(k - 1)>>) # <<>>

\* A node with two invalid marks.
C2_WitnessMarks ==
    Done /\ \E n \in AllNodes(content) : Len(MarksLastFirst(n.path, NumMarks(n.json))) >= 2

----------------------------------------------------------------------------
(* The flags of an entry *)

\* The path of the node an entry belongs to: the node itself, or the node
\* that carries the mark.
OwnerPath(e) == IF e.type = "mark" THEN SubSeq(e.path, 1, Len(e.path) - 2) ELSE e.path

\* C8 (as stated): invalidParentNode is true exactly for the entries whose
\* path properly extends the path of another entry of the report.
C8_ParentNodeIffDescendantPath ==
    Done => \A e \in Entries :
               e.invalidParentNode <=> \E f \in Entries : IsProperPrefix(f.path, e.path)

\* C8 (amended): invalidParentNode is true exactly for the entries whose node
\* (the node itself, or the node carrying the reported mark) lies at a path
\* that properly extends the path of another entry of the report.
C8_ParentNodeIffOwnerDescendant ==
    Done => \A e \in Entries :
               e.invalidParentNode <=> \E f \in Entries : IsProperPrefix(f.path, OwnerPath(e))

\* A mark entry and a node entry below an invalid node: both flagged.
C8_Witness ==
    /\ Done
    /\ \E e \in Entries : e.type = "mark" /\ e.invalidParentNode
    /\ \E e \in Entries : e.type = "node" /\ e.invalidParentNode
    /\ \E e, f \in Entries : /\ e.type = "mark" /\ ~e.invalidParentNode
                             /\ f.type = "node" /\ f.path = OwnerPath(e)

\* C10 (as stated): invalidParentMark is true exactly for the entries whose
\* element is strictly enclosed by a node that carries a mark the schema
\* lacks.
C10_ParentMarkIffEnclosingBadMark ==
    Done => \A e \in Entries :
               e.invalidParentMark <=>
                   \E a \in AllNodes(content) :
                       IsProperPrefix(a.path, e.path) /\ CarriesBadMark(a.json)

\* The 1-based position of the mark a mark entry reports.
MarkIndexOf(e) ==
    CHOOSE i \in 1..MaxSize + 1 : ToString(i - 1) = e.path[Len(e.path)]

\* C10 (amended): invalidParentMark is true exactly when an invalid mark was
\* met before the entry was made: on a node strictly enclosing the entry's
\* node, or on the entry's own node - for a node entry anywhere in its mark
\* list, for a mark entry earlier in the same mark list.
C10_ParentMarkIffEarlierBadMark ==
    Done => \A e \in Entries :
               e.invalidParentMark <=>
                   \E a \in AllNodes(content) :
                       \/ IsProperPrefix(a.path, OwnerPath(e)) /\ CarriesBadMark(a.json)
                       \/ /\ a.path = OwnerPath(e)
                          /\ \E j \in 1..NumMarks(a.json) :
                                /\ BadMark(a.json.marks[j])
                                /\ e.type = "mark" => j < MarkIndexOf(e)

\* Every way the flag is set or left clear occurs in one run: inherited from
\* an enclosing node, set by an earlier mark of the same list, set on a node
\* entry by the node's own mark, and clear on a first invalid mark.
C10_Witness ==
    /\ Done
    /\ \E e \in Entries : e.type = "mark" /\ ~e.invalidParentMark
    /\ \E e, f \in Entries : /\ e.type = "mark" /\ f.type = "mark" /\ e # f
                             /\ OwnerPath(e) = OwnerPath(f) /\ e.invalidParentMark
    /\ \E e \in Entries : /\ e.type = "node" /\ e.invalidParentMark
                          /\ \E a \in AllNodes(content) :
                                IsProperPrefix(a.path, e.path) /\ CarriesBadMark(a.json)

----------------------------------------------------------------------------
(* Replaying a path *)

IndexKeys == {ToString(i) : i \in 0..MaxSize}
ParseIndex(s) == CHOOSE i \in 0..MaxSize : ToString(i) = s

\* Follow path from node json: what it reaches, or nothing.
RECURSIVE Walk(_, _)
Walk(json, path) ==
    IF path = <<>> THEN [kind |-> "node", value |-> json]
    ELSE IF Len(path) < 2 \/ path[2] \notin IndexKeys THEN [kind |-> "none"]
    ELSE LET i == ParseIndex(path[2]) + 1
         IN IF path[1] = "content" /\ i <= NumChildren(json)
            THEN Walk(json.content[i], SubSeq(path, 3, Len(path)))
            ELSE IF path[1] = "marks" /\ i <= NumMarks(json) /\ Len(path) = 2
            THEN [kind |-> "mark", value |-> json.marks[i]]
            ELSE [kind |-> "none"]

Replay(c, path) ==
    IF c.kind = "array"
    THEN IF path # <<>> /\ path[1] \in IndexKeys /\ ParseIndex(path[1]) < Len(c.items)
         THEN Walk(c.items[ParseIndex(path[1]) + 1], Tail(path))
         ELSE [kind |-> "none"]
    ELSE Walk(c.json, path)

\* C9: following an entry's path from the input reaches the node or mark the
\* entry reports: an element of the entry's kind whose type name is the
\* entry's name.
C9_PathReplays ==
    Done => \A e \in Entries :
               LET r == Replay(content, e.path)
               IN /\ r.kind = e.type
                  /\ r.kind = "node" => Has(r.value, "type") /\ r.value.type = e.name
                  /\ r.kind = "mark" => MarkName(r.value) = e.name

\* A report of a top-level array with a reported node inside its second
\* element and a reported mark.
C9_Witness ==
    /\ Done
    /\ content.kind = "array"
    /\ \E e \in Entries : e.type = "node" /\ Len(e.path) >= 3 /\ e.path[1] = "1"
    /\ \E e \in Entries : e.type = "mark"

\* A report of a single document with a reported mark that is the second of
\* the mark list of a child node.
C9_WitnessObject ==
    /\ Done
    /\ content.kind = "object"
    /\ \E e \in Entries : e.type = "mark" /\ Len(e.path) = 4 /\ e.path[4] = "1"

----------------------------------------------------------------------------
(* The synthesizer run on its own *)

\* Longest observation list handed to the synthesizer.
MaxObs == 3

TagNames == {"x", "y"}
Observations ==
    [type : {"node", "mark"}, tagName : TagNames,
     attributes : {<<>>, <<"id">>, <<"cls">>}]

NoInput ==
    /\ content = [kind |-> "null"]
    /\ schema = [nodes |-> {}, marks |-> {}]
    /\ extensions = <<>>

InitSynth ==
    /\ NoInput
    /\ elements \in UNION {[1..k -> Observations] : k \in 0..MaxObs}
    /\ options \in [fallback : BOOLEAN, slice : {TRUE}]
    /\ pc = "start"
    /\ result = <<>>
    /\ details = <<>>
    /\ stack = <<>>

GeneratePlaceholderNodeExtensions ==
    /\ pc = "start"
    /\ result' = generatePlaceholderNodeExtensions(elements, options)
    /\ pc' = "done"
    /\ UNCHANGED <<content, schema, extensions, elements, options, details, stack>>

NextSynth == GeneratePlaceholderNodeExtensions

SpecSynth == InitSynth /\ [][NextSynth]_vars

ObservationsOf(t) == {i \in 1..Len(elements) : elements[i].tagName = t}
DescriptorsOf(t) == {i \in 1..Len(result) : result[i].name = t}

\* C5: when the observations of a tag all have the same kind, the result has
\* exactly one descriptor for the tag and the attributes it declares are the
\* union of the attribute names of those observations.
C5_AttributesAreUnion ==
    Done => \A t \in TagNames :
               (/\ ObservationsOf(t) # {}
                /\ \A i, j \in ObservationsOf(t) : elements[i].type = elements[j].type)
               => /\ Cardinality(DescriptorsOf(t)) = 1
                  /\ \A d \in DescriptorsOf(t) :
                        result[d].attributes =
                            UNION {ToSet(elements[i].attributes) : i \in ObservationsOf(t)}

\* Three observations of one (kind, tag) that disagree on the attributes, the
\* last of them with no attribute.
C5_Witness ==
    /\ Done
    /\ Len(elements) = 3
    /\ \A i \in 1..3 : elements[i].tagName = "x" /\ elements[i].type = "node"
    /\ elements[1].attributes = <<"cls">>
    /\ elements[2].attributes = <<"id">>
    /\ elements[3].attributes = <<>>
    /\ Len(result) = 1

\* C6: the result has exactly one descriptor per distinct (kind, tagName)
\* pair of the observations, of that kind and of that name.
C6_OneDescriptorPerKindAndTag ==
    Done => LET pairs == {<<elements[i].type, elements[i].tagName>> : i \in 1..Len(elements)}
            IN /\ {<<result[i].kind, result[i].name>> : i \in 1..Len(result)} = pairs
               /\ Len(result) = Cardinality(pairs)

----------------------------------------------------------------------------
(* isContentInvalid and createPlaceholderExtensions *)

\* Longest extension list of the caller, longest HTML element list.
MaxExts == 3
MaxElements == 2

Paragraph == [kind |-> "node", name |-> "p", tags |-> {"p"}]
Bold == [kind |-> "mark", name |-> "b", tags |-> {"b"}]
MarkX == [kind |-> "mark", name |-> "x", tags |-> {"x"}]
Collaboration == [kind |-> "extension", name |-> "collaboration", tags |-> {}]
ExtensionPool == {Paragraph, Bold, MarkX, Collaboration}

ExtensionLists ==
    {l \in UNION {[1..k -> ExtensionPool] : k \in 0..MaxExts} :
        \A i, j \in 1..Len(l) : i # j => l[i] # l[j]}

HTMLElements ==
    {[tagName |-> "P", attributes |-> <<>>], [tagName |-> "X", attributes |-> <<>>],
     [tagName |-> "X", attributes |-> <<"id">>], [tagName |-> "Y", attributes |-> <<"cls">>]}

StringInput(c) ==
    \/ c = [kind |-> "string", value |-> "", html |-> <<>>]
    \/ \E html \in UNION {[1..k -> HTMLElements] : k \in 0..MaxElements} :
          c = [kind |-> "string", value |-> "<html>", html |-> html]

InitPlaceholder ==
    /\ \/ content = [kind |-> "null"]
       \/ StringInput(content)
       \/ JsonInput(content, MaxSize - 1)
    /\ extensions \in ExtensionLists
    /\ schema = DeriveSchema(extensions)
    /\ elements = <<>>
    /\ options \in [fallback : BOOLEAN, slice : {TRUE}]
    /\ pc = "start"
    /\ result = <<>>
    /\ details = <<>>
    /\ stack = <<>>

IsContentInvalid ==
    /\ pc = "start"
    /\ result' = isContentInvalid(content, extensions)
    /\ pc' = "checked"
    /\ UNCHANGED <<content, schema, extensions, elements, options, details, stack>>

CreatePlaceholderExtensions ==
    /\ pc = "start"
    /\ result' = createPlaceholderExtensions(content, extensions, options)
    /\ pc' = "created"
    /\ UNCHANGED <<content, schema, extensions, elements, options, details, stack>>

NextPlaceholder == IsContentInvalid \/ CreatePlaceholderExtensions

SpecPlaceholder == InitPlaceholder /\ [][NextPlaceholder]_vars

Created == pc = "created"
IsJSON(c) == c.kind \in {"object", "array"}
IsPlaceholder(extension) == Has(extension, "priority")

\* The non-empty node type names and the mark type names of a document.
NodeTypeNamesOf(c) ==
    {n.json.type : n \in {x \in AllNodes(c) : Has(x.json, "type") /\ x.json.type # ""}}
MarkTypeNamesOf(c) == {MarkName(m.mark) : m \in AllMarks(c)}

\* C4: the list returned for a JSON content makes the content recognized:
\* the schema derived from it has every node type name and every mark type
\* name of the content, the validator reports nothing against that schema and
\* isContentInvalid is false for the returned list.
C4_PlaceholdersCoverContent ==
    (Created /\ IsJSON(content)) =>
        /\ NodeTypeNamesOf(content) \subseteq DeriveSchema(result).nodes
        /\ MarkTypeNamesOf(content) \subseteq DeriveSchema(result).marks
        /\ getUnknownContent(content, DeriveSchema(result)) = <<>>
        /\ ~isContentInvalid(content, result)

\* C7: a returned list that holds a synthesized placeholder extension holds
\* no extension named 'collaboration'.
C7_NoCollaborationWithPlaceholders ==
    Created => ((\E i \in 1..Len(result) : IsPlaceholder(result[i]))
                => \A i \in 1..Len(result) : result[i].name # "collaboration")

----------------------------------------------------------------------------
(* The content-build pipeline: createNodeFromContent(content, schema, options) *)

InitBuild ==
    /\ \/ content = [kind |-> "null"]
       \/ content = [kind |-> "array", items |-> <<>>]
       \/ StringInput(content)
       \/ JsonInput(content, MaxSize - 1)
    /\ schema \in Schemas
    /\ extensions = <<>>
    /\ elements = <<>>
    /\ options \in [fallback : {FALSE}, slice : BOOLEAN]
    /\ pc = "dispatch"
    /\ result = <<>>
    /\ details = <<>>
    /\ stack = <<content>>

NextBuild ==
    \/ Dispatch
    \/ TryReturn
    \/ TryThrow
    \/ Catch
    \/ Fallback
    \/ ParseText
    \/ Return

SpecBuild == InitBuild /\ [][NextBuild]_vars

\* The call is synchronous: it runs until it returns.
SpecBuildFair == SpecBuild /\ WF_vars(NextBuild)

Recovered == details # <<>>

\* At most one re-invocation, made with the empty string, which takes the
\* text branch; the value returned is a node or a fragment.
C3_Recovery ==
    /\ Len(stack) <= 2
    /\ Len(stack) = 2 => /\ Top = EmptyString
                         /\ pc \in {"dispatch", "text", "return"}
    /\ pc = "done" => result # <<>> /\ result.kind \in {"node", "fragment"}
    /\ pc # "done" => ENABLED NextBuild

\* C3: for every content createNodeFromContent returns a node or a fragment;
\* a rejection during the JSON build is recovered by one re-invocation with
\* the empty string, which takes the text branch, so that the pipeline
\* re-invokes itself at most once.
C3_AlwaysReturns == [](C3_Recovery) /\ <>(pc = "done")

\* A JSON array of a valid and an invalid node was rejected, recovered, and
\* the call returned the parse of the empty string.
C3_Witness ==
    /\ pc = "done"
    /\ Recovered
    /\ content.kind = "array" /\ Len(content.items) = 2
    /\ ~SchemaRejects(content.items[1], schema)
    /\ SchemaRejects(content.items[2], schema)
    /\ result.of = EmptyString

----------------------------------------------------------------------------
(* The diagnostics of a failed JSON build against the Tree Validator *)

\* The fields of a report entry that both reports carry: kind, name (when
\* the entry has one), path and the two ancestry flags.
Common(e) ==
    (IF Has(e, "name") THEN [name |-> e.name] ELSE <<>>)
    @@ [type |-> e.type,
        path |-> e.path,
        invalidParentNode |-> e.invalidParentNode,
        invalidParentMark |-> e.invalidParentMark]

CommonReport(report) == [i \in 1..Len(report) |-> Common(report[i])]

\* C11: when the JSON build fails, the report computed for diagnostics has
\* the same entries (kind, name, path, invalidParentNode, invalidParentMark)
\* in the same order as getUnknownContent returns for the failed content and
\* the schema.
C11_DiagnosticsAreValidatorReport ==
    Recovered =>
        CommonReport(details.invalidContent)
            = CommonReport(getUnknownContent(details.json, schema))

\* Every node of the failed content has a non-empty type.
RECURSIVE AllTyped(_)
AllTyped(json) ==
    /\ Has(json, "type") /\ json.type # ""
    /\ \A i \in 1..(IF Has(json, "content") THEN Len(json.content) ELSE 0) :
           AllTyped(json.content[i])

\* The two reports agree on a single JSON object whose nodes all carry a
\* non-empty type: the cases of C11 in which they differ are the JSON arrays
\* and the nodes without a type name.
C11_SameOnTypedObjects ==
    (Recovered /\ details.json.kind = "object" /\ AllTyped(details.json.json))
        => CommonReport(details.invalidContent)
               = CommonReport(getUnknownContent(details.json, schema))

\* A failed single object with an invalid child and an invalid mark, all
\* nodes typed.
C11_TypedObjectFailed ==
    /\ Recovered
    /\ details.json.kind = "object"
    /\ AllTyped(details.json.json)
    /\ Len(details.invalidContent) >= 2

====
